---- MODULE Spec2Model ----
(***************************************************************************)
(* Model of pycoder.py: the two run-length codecs (method A and method B), *)
(* the shared run scanner _do_encode, and the container entry points       *)
(* encode_rle / decode_rle.  Files are byte sequences; a reader is a file  *)
(* plus a read position; python bytes objects of length 0 or 1 are         *)
(* sequences of length 0 or 1.                                             *)
(***************************************************************************)
EXTENDS Integers, Sequences, FiniteSets, TLC

VARIABLES
    mode,       \* "roundtrip": encode_rle then decode_rle; "decode": decode_rle of a given file
    pc,         \* position of the program
    method,     \* encode_rle's method argument (a bytes object)
    raw,        \* contents of the file encode_rle reads
    in_pos,     \* read position of _do_encode's in_
    curr_byte,  \* _do_encode's curr_byte
    count,      \* _do_encode's count
    calls,      \* the (curr_byte, count) pairs _do_encode passed to write_fn, in order
    rle,        \* contents of the encoded file: encode_rle's out, decode_rle's in_
    rle_pos,    \* read position of decode_rle's in_
    dmethod,    \* the bytes decode_rle read as method
    out_open,   \* decode_rle has opened its output file
    out,        \* contents of decode_rle's output file
    err         \* exception that ended the program, "" when none

vars == <<mode, pc, method, raw, in_pos, curr_byte, count, calls,
          rle, rle_pos, dmethod, out_open, out, err>>

encVars == <<in_pos, curr_byte, count, calls>>
decVars == <<rle_pos, dmethod, out_open, out>>

----------------------------------------------------------------------------
(* Program constants *)

METHOD_A == <<33>>
METHOD_B == <<138>>

\* the run length at which _do_encode flushes and restarts the count
MaxCount == 255

----------------------------------------------------------------------------
(* Bounds of the model *)

\* number of long runs concatenated to build an input of encode_rle
MaxRuns == 2
\* length of the short inputs of encode_rle
MaxLen == 4
\* length of the files given directly to decode_rle
MaxStream == 5

RunBytes == {65, 66}
RunLens == {1, MaxCount - 1, MaxCount}
DataBytes == {2, 65, 66}
StreamBytes == {0, 2, 33, 65, 138}
\* a bytes object that is no method of encode_rle
BadMethod == <<65>>

----------------------------------------------------------------------------
(* Helpers *)

Min(a, b) == IF a < b THEN a ELSE b

\* n * bs for an int n and a bytes object bs
Times(n, bs) == [i \in 1..(n * Len(bs)) |-> bs[((i - 1) % Len(bs)) + 1]]

\* f.read(n) at position pos: at most n bytes, fewer at end of file
Read(f, pos, n) == SubSeq(f, pos + 1, Min(pos + n, Len(f)))

_int_to_byte(i) == <<i>>

RECURSIVE RunInputs(_)
RunInputs(k) ==
    IF k = 0 THEN {<<>>}
    ELSE LET P == RunInputs(k - 1)
         IN P \cup {r \o [i \in 1..n |-> b] : r \in P, b \in RunBytes, n \in RunLens}

ShortInputs == UNION {[1..n -> DataBytes] : n \in 0..MaxLen}
Inputs == RunInputs(MaxRuns) \cup ShortInputs
Streams == UNION {[1..n -> StreamBytes] : n \in 0..MaxStream}

----------------------------------------------------------------------------
(* Encoding *)

\* write_fn_A with the two writes in the wrong order
write_fn_A_swapped(cb, c) == cb \o _int_to_byte(c)

\* write_fn of _encode_mA: the bytes it appends to out
write_fn_A(cb, c) == _int_to_byte(c) \o cb

\* write_fn_B marking single bytes as runs too
write_fn_B_always(cb, c) == cb \o (IF c >= 1 THEN cb \o _int_to_byte(c) ELSE <<>>)

\* write_fn of _encode_mB: the bytes it appends to out
write_fn_B(cb, c) == cb \o (IF c > 1 THEN cb \o _int_to_byte(c) ELSE <<>>)

\* the write_fn that encode_rle's encode_fn hands to _do_encode
write_fn(m, cb, c) == IF m = METHOD_A THEN write_fn_A(cb, c) ELSE write_fn_B(cb, c)

Init ==
    /\ \/ /\ mode = "roundtrip"
          /\ pc = "encode_rle"
          /\ raw \in Inputs
          /\ method \in {METHOD_A, METHOD_B, BadMethod}
          /\ rle = <<>>
       \/ /\ mode = "decode"
          /\ pc = "decode_rle"
          /\ raw = <<>>
          /\ method = <<>>
          /\ rle \in Streams
    /\ in_pos = 0
    /\ curr_byte = <<>>
    /\ count = 0
    /\ calls = <<>>
    /\ rle_pos = 0
    /\ dmethod = <<>>
    /\ out_open = FALSE
    /\ out = <<>>
    /\ err = ""

\* encode_rle up to the call of encode_fn: the assert, the opens, out.write(method)
EncodeRle ==
    /\ pc = "encode_rle"
    /\ IF method \in {METHOD_A, METHOD_B}
       THEN /\ rle' = method
            /\ pc' = "do_encode"
            /\ err' = err
       ELSE /\ err' = "AssertionError"
            /\ pc' = "error"
            /\ rle' = rle
    /\ UNCHANGED <<mode, method, raw, encVars, decVars>>

\* _do_encode before its loop
DoEncodeStart ==
    /\ pc = "do_encode"
    /\ curr_byte' = Read(raw, in_pos, 1)
    /\ in_pos' = in_pos + Len(curr_byte')
    /\ count' = 1
    /\ pc' = "enc_loop"
    /\ UNCHANGED <<mode, method, raw, calls, rle, decVars, err>>

\* one iteration of _do_encode's loop: in_.read(1) returned a byte
DoEncodeLoop ==
    /\ pc = "enc_loop"
    /\ Read(raw, in_pos, 1) # <<>>
    /\ LET next_byte == Read(raw, in_pos, 1)
       IN /\ in_pos' = in_pos + 1
          /\ IF next_byte = curr_byte
             THEN /\ curr_byte' = curr_byte
                  /\ IF count + 1 = MaxCount
                     THEN /\ calls' = Append(calls, <<curr_byte, count + 1>>)
                          /\ rle' = rle \o write_fn(method, curr_byte, count + 1)
                          /\ count' = 0
                     ELSE /\ count' = count + 1
                          /\ UNCHANGED <<calls, rle>>
             ELSE /\ IF count # 0
                     THEN /\ calls' = Append(calls, <<curr_byte, count>>)
                          /\ rle' = rle \o write_fn(method, curr_byte, count)
                     ELSE UNCHANGED <<calls, rle>>
                  /\ count' = 1
                  /\ curr_byte' = next_byte
    /\ UNCHANGED <<mode, pc, method, raw, decVars, err>>

\* DoEncodeEnd without the test of curr_byte
DoEncodeEnd_unguarded ==
    /\ pc = "enc_loop"
    /\ Read(raw, in_pos, 1) = <<>>
    /\ calls' = Append(calls, <<curr_byte, count>>)
    /\ rle' = rle \o write_fn(method, curr_byte, count)
    /\ pc' = "decode_rle"
    /\ UNCHANGED <<mode, method, raw, in_pos, curr_byte, count, decVars, err>>

\* the end of _do_encode: in_.read(1) returned b'', then the final write
DoEncodeEnd ==
    /\ pc = "enc_loop"
    /\ Read(raw, in_pos, 1) = <<>>
    /\ IF curr_byte # <<>>
       THEN /\ calls' = Append(calls, <<curr_byte, count>>)
            /\ rle' = rle \o write_fn(method, curr_byte, count)
       ELSE UNCHANGED <<calls, rle>>
    /\ pc' = "decode_rle"
    /\ UNCHANGED <<mode, method, raw, in_pos, curr_byte, count, decVars, err>>

----------------------------------------------------------------------------
(* Decoding *)

\* decode_fn with _decode_mB as the default of the lookup
decode_fn_default(m) ==
    IF m = METHOD_A THEN "decode_mA" ELSE "decode_mB"

\* decode_rle's lookup of decode_fn by the method read; "None" when absent
decode_fn(m) ==
    IF m = METHOD_A THEN "decode_mA"
    ELSE IF m = METHOD_B THEN "decode_mB"
    ELSE "None"

\* pair_complete accepting a pair of one byte
pair_nonempty(pair) == Len(pair) >= 1

\* the condition asserted by _decode_mA on each pair
pair_complete(pair) == Len(pair) = 2

\* seek_back returning to before b1
seek_back_two(p, b2) == IF b2 # <<>> THEN p - 2 ELSE p

\* seek_back never seeking
seek_back_never(p, b2) == p

\* _decode_mB's in_.seek(-1, io.SEEK_CUR) when b2 was read; p is the position after b2
seek_back(p, b2) == IF b2 # <<>> THEN p - 1 ELSE p

\* decode_rle up to the call of decode_fn
DecodeRle ==
    /\ pc = "decode_rle"
    /\ dmethod' = Read(rle, rle_pos, 1)
    /\ rle_pos' = rle_pos + Len(dmethod')
    /\ IF decode_fn(dmethod') # "None"
       THEN /\ out_open' = TRUE
            /\ pc' = decode_fn(dmethod')
            /\ err' = err
       ELSE /\ err' = "ValueError"
            /\ pc' = "error"
            /\ out_open' = out_open
    /\ UNCHANGED <<mode, method, raw, encVars, rle, out>>

\* one iteration of _decode_mA's loop: in_.read(2) returned a pair
DecodeALoop ==
    /\ pc = "decode_mA"
    /\ Read(rle, rle_pos, 2) # <<>>
    /\ LET pair == Read(rle, rle_pos, 2)
       IN /\ rle_pos' = rle_pos + Len(pair)
          /\ IF pair_complete(pair)
             THEN /\ out' = out \o Times(pair[1], SubSeq(pair, 2, Len(pair)))
                  /\ UNCHANGED <<pc, err>>
             ELSE /\ err' = "AssertionError"
                  /\ pc' = "error"
                  /\ out' = out
    /\ UNCHANGED <<mode, method, raw, encVars, rle, dmethod, out_open>>

\* the end of _decode_mA: in_.read(2) returned b''
DecodeAEnd ==
    /\ pc = "decode_mA"
    /\ Read(rle, rle_pos, 2) = <<>>
    /\ pc' = "done"
    /\ UNCHANGED <<mode, method, raw, encVars, rle, decVars, err>>

\* one iteration of _decode_mB's loop: the first in_.read(1) returned a byte
DecodeBLoop ==
    /\ pc = "decode_mB"
    /\ Read(rle, rle_pos, 1) # <<>>
    /\ LET b1 == Read(rle, rle_pos, 1)
           p1 == rle_pos + Len(b1)
           b2 == Read(rle, p1, 1)
           p2 == p1 + Len(b2)
       IN IF b1 = b2
          THEN LET b3 == Read(rle, p2, 1)
               IN /\ rle_pos' = p2 + Len(b3)
                  /\ IF b3 # <<>>
                     THEN /\ out' = out \o Times(b3[1], b1)
                          /\ UNCHANGED <<pc, err>>
                     ELSE /\ err' = "AssertionError"
                          /\ pc' = "error"
                          /\ out' = out
          ELSE /\ rle_pos' = seek_back(p2, b2)
               /\ out' = out \o Times(1, b1)
               /\ UNCHANGED <<pc, err>>
    /\ UNCHANGED <<mode, method, raw, encVars, rle, dmethod, out_open>>

\* the end of _decode_mB: the first in_.read(1) returned b''
DecodeBEnd ==
    /\ pc = "decode_mB"
    /\ Read(rle, rle_pos, 1) = <<>>
    /\ pc' = "done"
    /\ UNCHANGED <<mode, method, raw, encVars, rle, decVars, err>>

Next ==
    \/ EncodeRle
    \/ DoEncodeStart
    \/ DoEncodeLoop
    \/ DoEncodeEnd
    \/ DecodeRle
    \/ DecodeALoop
    \/ DecodeAEnd
    \/ DecodeBLoop
    \/ DecodeBEnd

Spec == Init /\ [][Next]_vars

\* the program is sequential and runs each call to its end
FairSpec == Spec /\ WF_vars(Next)

----------------------------------------------------------------------------
(* Properties *)

Finished == pc \in {"done", "error"}

\* encode_rle has returned normally
EncodeDone ==
    /\ mode = "roundtrip"
    /\ method \in {METHOD_A, METHOD_B}
    /\ pc \notin {"encode_rle", "do_encode", "enc_loop"}

\* the part of the encoded file after the method byte
Payload == SubSeq(rle, 2, Len(rle))

NoAdjacentEqual(s) == \A i \in 1..(Len(s) - 1) : s[i] # s[i + 1]

\* length of the maximal run at the head of a non-empty s
HeadRun(s) ==
    CHOOSE n \in 1..Len(s) :
        /\ \A i \in 1..n : s[i] = s[1]
        /\ n = Len(s) \/ s[n + 1] # s[1]

\* the maximal runs of s as <<byte, length>> pairs
RECURSIVE MaximalRuns(_)
MaximalRuns(s) ==
    IF s = <<>> THEN <<>>
    ELSE LET n == HeadRun(s)
         IN <<(<<s[1], n>>)>> \o MaximalRuns(SubSeq(s, n + 1, Len(s)))

\* the method-A pairs for runs no longer than MaxCount + 1: one pair
\* [n, b] up to MaxCount, and [MaxCount, b] [1, b] for MaxCount + 1
RECURSIVE PairsOfRuns(_)
PairsOfRuns(rs) ==
    IF rs = <<>> THEN <<>>
    ELSE LET b == rs[1][1]
             n == rs[1][2]
         IN (IF n <= MaxCount THEN <<n, b>> ELSE <<MaxCount, b, n - MaxCount, b>>)
            \o PairsOfRuns(Tail(rs))

\* C1: method-B round trip: decoding the output of encode_rle(raw, METHOD_B)
\* ends normally and yields exactly raw, whatever the length of the last run.
C1_RoundTripB ==
    (mode = "roundtrip" /\ method = METHOD_B /\ Finished)
        => (pc = "done" /\ err = "" /\ out = raw)

\* C2: method-A round trip: decoding the output of encode_rle(raw, METHOD_A)
\* ends normally and yields exactly raw.
C2_RoundTripA ==
    (mode = "roundtrip" /\ method = METHOD_A /\ Finished)
        => (pc = "done" /\ err = "" /\ out = raw)

C2_Witness ==
    /\ mode = "roundtrip" /\ method = METHOD_A /\ pc = "done"
    /\ Len(raw) = 2 * MaxCount
    /\ raw[1] # raw[Len(raw)]
    /\ out = raw

\* C3: every (byte, length) pair _do_encode passes to write_fn, the final
\* flush included, has a length in 1..255, never 0.
C3_RunLengths ==
    \A i \in 1..Len(calls) : calls[i][2] \in 1..MaxCount

\* C4: under method A a maximal run of exactly 255 bytes b is encoded as the
\* single pair [255, b], also when it ends the input, and a maximal run of 256
\* as [255, b] [1, b]; stated on the inputs whose maximal runs are all at most
\* 256 long and include one of 255 or 256, the shorter runs being [n, b].
C4_RunCapA ==
    (EncodeDone /\ method = METHOD_A)
        => LET rs == MaximalRuns(raw)
           IN ((\A i \in 1..Len(rs) : rs[i][2] <= MaxCount + 1)
               /\ (\E i \in 1..Len(rs) : rs[i][2] >= MaxCount))
                 => Payload = PairsOfRuns(rs)

\* C5: truncation inside a token is an error: _decode_mA raises on a final
\* read of one byte and never ends normally on a payload of odd length;
\* _decode_mB raises when b1 = b2 and the file ends before b3.
C5_Truncation ==
    [][ /\ (pc = "decode_mA" /\ Len(rle) - rle_pos = 1)
            => (pc' = "error" /\ err' = "AssertionError" /\ out' = out)
        /\ (pc' = "done" /\ dmethod' = METHOD_A)
            => (Len(rle') - 1) % 2 = 0
        /\ (pc = "decode_mB" /\ Len(rle) - rle_pos = 2
               /\ rle[rle_pos + 1] = rle[rle_pos + 2])
            => (pc' = "error" /\ err' = "AssertionError" /\ out' = out)
      ]_vars

C5_Witness ==
    /\ pc = "error" /\ err = "AssertionError" /\ dmethod = METHOD_B
    /\ Len(rle) >= 4
    /\ rle_pos = Len(rle)
    /\ rle[Len(rle)] = rle[Len(rle) - 1]
    /\ out # <<>>

\* C6: decode_rle reads one byte as the tag; a tag that is neither 0x21 nor
\* 0x8A, or a missing tag, ends in the unknown-method error with the output
\* never opened and nothing written; otherwise the decoder of the tag starts
\* at the byte after the tag.
C6_Dispatch ==
    [][ /\ pc = "decode_rle"
            => LET tag == IF rle = <<>> THEN <<>> ELSE <<rle[1]>>
               IN /\ dmethod' = tag
                  /\ rle_pos' = Len(tag)
                  /\ out' = <<>>
                  /\ IF tag = <<33>> THEN pc' = "decode_mA" /\ err' = "" /\ out_open'
                     ELSE IF tag = <<138>> THEN pc' = "decode_mB" /\ err' = "" /\ out_open'
                     ELSE pc' = "error" /\ err' = "ValueError" /\ ~out_open'
        /\ err' = "ValueError" => (~out_open' /\ out' = <<>>)
        /\ pc \in {"decode_mA", "decode_mB"} => (dmethod' = dmethod /\ rle' = rle)
      ]_vars

C6_Witness ==
    /\ pc = "error" /\ err = "ValueError"
    /\ Len(rle) >= 2
    /\ rle_pos = 1
    /\ ~out_open /\ out = <<>>

\* C7: method-B pass-through: when no two adjacent bytes of the input are
\* equal, the method-B payload is the input itself.
C7_PassThroughB ==
    (EncodeDone /\ method = METHOD_B /\ NoAdjacentEqual(raw))
        => Payload = raw

C7_Witness ==
    /\ EncodeDone /\ method = METHOD_B
    /\ Len(raw) >= 3
    /\ NoAdjacentEqual(raw)
    /\ Payload = raw

\* C8: encoding an empty input writes the method byte only and reports no
\* run; decoding a file made of a valid method byte only ends normally with
\* an empty output.
C8_EmptyInput ==
    /\ (EncodeDone /\ raw = <<>>) => (rle = method /\ calls = <<>>)
    /\ (Finished /\ rle \in {METHOD_A, METHOD_B})
           => (pc = "done" /\ err = "" /\ out_open /\ out = <<>>)

C8_Witness ==
    /\ mode = "roundtrip" /\ raw = <<>> /\ pc = "done"
    /\ rle = method
    /\ out_open /\ out = <<>>

\* C9: in an iteration of _decode_mB with b1 present: when b2 is absent or
\* differs from b1, b1 is written once and the position ends one byte past
\* b1; when b2 = b1 and b3 is present, b1 is written b3 times and the position
\* advances by three.
C9_Pushback ==
    [][ (pc = "decode_mB" /\ rle_pos < Len(rle))
            => LET b1 == rle[rle_pos + 1]
               IN IF rle_pos + 2 <= Len(rle) /\ rle[rle_pos + 2] = b1
                  THEN rle_pos + 3 <= Len(rle)
                         => /\ rle_pos' = rle_pos + 3
                            /\ out' = out \o [i \in 1..rle[rle_pos + 3] |-> b1]
                  ELSE /\ rle_pos' = rle_pos + 1
                       /\ out' = out \o <<b1>>
      ]_vars

C9_Witness ==
    /\ pc = "decode_mB"
    /\ rle_pos = 2
    /\ Len(rle) >= 4
    /\ rle[2] # rle[3]
    /\ rle[3] = rle[4]
    /\ out = <<rle[2]>>

\* C10: _do_encode, _decode_mA and _decode_mB terminate: every iteration
\* advances the read position by at least one byte, the loop ends at the
\* first empty read, and every run ends normally or with an error.
C10_Termination ==
    /\ [][ /\ (pc = "enc_loop" /\ pc' = "enc_loop") => in_pos' >= in_pos + 1
           /\ (pc = "enc_loop" /\ in_pos = Len(raw)) => pc' # "enc_loop"
           /\ (pc = "decode_mA" /\ pc' = "decode_mA") => rle_pos' >= rle_pos + 1
           /\ (pc = "decode_mA" /\ rle_pos = Len(rle)) => pc' = "done"
           /\ (pc = "decode_mB" /\ pc' = "decode_mB") => rle_pos' >= rle_pos + 1
           /\ (pc = "decode_mB" /\ rle_pos = Len(rle)) => pc' = "done"
         ]_vars
    /\ <>Finished

C10_Witness ==
    /\ mode = "decode" /\ pc = "done" /\ dmethod = METHOD_B
    /\ Len(rle) = MaxStream
    /\ rle_pos = Len(rle)
    /\ NoAdjacentEqual(Payload)

====
